---- MODULE Spec2Model ----
(***************************************************************************)
(* Model of war-rust: the fixed-capacity double-ended ring buffer          *)
(* (src/src/ring_buffer.rs) that backs the players' hands and the battle   *)
(* pot.  A RingBuffer<T, N> value is a record                              *)
(*     [N, buffer, head, tail, count]                                      *)
(* with buffer a function on 0..N-1.  Option<T> is a sequence of length    *)
(* 0 (None) or 1 (Some(v)).                                                 *)
(***************************************************************************)
EXTENDS Integers, Sequences, FiniteSets, TLC

\* ---- bounds -------------------------------------------------------------
MaxN == 3          \* capacities 1..MaxN are explored
MaxVal == 2        \* pushed items are 1..MaxVal
MaxItems == 2      \* slices passed to the bulk operations have 0..MaxItems items
MaxPairs == 7      \* pop_front/push_back pairs followed by the wraparound observer
MaxNones == 2      \* next() calls followed after an iterator is exhausted
MaxSeed == 3       \* decks shuffled with seeds 0..MaxSeed are played
MaxBulk == 3       \* longest slice given to a bulk push on its own

FillValue == 0     \* the default_value of the tests (RingBuffer::<i32, N>::new(0))

Val == 1..MaxVal
Capacities == 1..MaxN

NoneOpt == <<>>
Some(v) == <<v>>

RECURSIVE SeqsUpTo(_)
SeqsUpTo(n) ==
    IF n = 0 THEN {<<>>}
    ELSE LET S == SeqsUpTo(n - 1)
         IN  S \cup {Append(s, v) : s \in {t \in S : Len(t) = n - 1}, v \in Val}

Slices == SeqsUpTo(MaxItems)

Min(a, b) == IF a < b THEN a ELSE b

\* ---- RingBuffer<T, N> ---------------------------------------------------

\* pub fn new(default_value: T) -> Self, for the const parameter N = n
new_counts_fill(n, default_value) ==
    [N |-> n, buffer |-> [i \in 0..(n - 1) |-> default_value],
     head |-> 0, tail |-> 0, count |-> n]
new(n, default_value) ==
    [N |-> n, buffer |-> [i \in 0..(n - 1) |-> default_value],
     head |-> 0, tail |-> 0, count |-> 0]

len(self) == self.count

is_empty_by_pointers(self) == self.head = self.tail
is_empty(self) == self.count = 0

is_full_off_by_one(self) == self.count >= self.N - 1
is_full(self) == self.count = self.N

capacity(self) == self.N

\* Operations return [self |-> the buffer afterwards, ret |-> the result].

push_back_no_check(self, item) ==
    [self |-> [self EXCEPT !.buffer[self.head] = item,
                           !.head = (self.head + 1) % self.N,
                           !.count = self.count + 1],
     ret |-> TRUE]
push_back_no_wrap(self, item) ==
    IF is_full(self) THEN [self |-> self, ret |-> FALSE]
    ELSE [self |-> [self EXCEPT !.buffer[self.head] = item,
                                !.head = IF self.head + 1 < self.N
                                         THEN self.head + 1 ELSE self.head,
                                !.count = self.count + 1],
          ret |-> TRUE]
push_back(self, item) ==
    IF is_full(self) THEN [self |-> self, ret |-> FALSE]
    ELSE [self |-> [self EXCEPT !.buffer[self.head] = item,
                                !.head = (self.head + 1) % self.N,
                                !.count = self.count + 1],
          ret |-> TRUE]

pop_front_stale(self) ==
    IF is_empty(self) THEN [self |-> self, ret |-> Some(self.buffer[self.tail])]
    ELSE [self |-> [self EXCEPT !.tail = (self.tail + 1) % self.N,
                                !.count = self.count - 1],
          ret |-> Some(self.buffer[self.tail])]
pop_front_newest(self) ==
    IF is_empty(self) THEN [self |-> self, ret |-> NoneOpt]
    ELSE LET h == IF self.head = 0 THEN self.N - 1 ELSE self.head - 1
         IN  [self |-> [self EXCEPT !.head = h, !.count = self.count - 1],
              ret |-> Some(self.buffer[h])]
pop_front_keeps_count(self) ==
    IF is_empty(self) THEN [self |-> self, ret |-> NoneOpt]
    ELSE [self |-> [self EXCEPT !.tail = (self.tail + 1) % self.N],
          ret |-> Some(self.buffer[self.tail])]
pop_front(self) ==
    IF is_empty(self) THEN [self |-> self, ret |-> NoneOpt]
    ELSE [self |-> [self EXCEPT !.tail = (self.tail + 1) % self.N,
                                !.count = self.count - 1],
          ret |-> Some(self.buffer[self.tail])]

push_front_moves_when_full(self, item) ==
    LET t == IF self.tail = 0 THEN self.N - 1 ELSE self.tail - 1
    IN  IF is_full(self) THEN [self |-> [self EXCEPT !.tail = t], ret |-> FALSE]
        ELSE [self |-> [self EXCEPT !.tail = t, !.buffer[t] = item,
                                    !.count = self.count + 1],
              ret |-> TRUE]
push_front_old_tail(self, item) ==
    IF is_full(self) THEN [self |-> self, ret |-> FALSE]
    ELSE LET t == IF self.tail = 0 THEN self.N - 1 ELSE self.tail - 1
         IN  [self |-> [self EXCEPT !.tail = t, !.buffer[self.tail] = item,
                                    !.count = self.count + 1],
              ret |-> TRUE]
push_front_no_wrap(self, item) ==
    IF is_full(self) THEN [self |-> self, ret |-> FALSE]
    ELSE LET t == self.tail - 1
         IN  [self |-> [self EXCEPT !.tail = t, !.count = self.count + 1],
              ret |-> TRUE]
push_front(self, item) ==
    IF is_full(self) THEN [self |-> self, ret |-> FALSE]
    ELSE LET t == IF self.tail = 0 THEN self.N - 1 ELSE self.tail - 1
         IN  [self |-> [self EXCEPT !.tail = t, !.buffer[t] = item,
                                    !.count = self.count + 1],
              ret |-> TRUE]

pop_back_no_wrap(self) ==
    IF is_empty(self) THEN [self |-> self, ret |-> NoneOpt]
    ELSE LET h == IF self.head = 0 THEN 0 ELSE self.head - 1
         IN  [self |-> [self EXCEPT !.head = h, !.count = self.count - 1],
              ret |-> Some(self.buffer[h])]
pop_back(self) ==
    IF is_empty(self) THEN [self |-> self, ret |-> NoneOpt]
    ELSE LET h == IF self.head = 0 THEN self.N - 1 ELSE self.head - 1
         IN  [self |-> [self EXCEPT !.head = h, !.count = self.count - 1],
              ret |-> Some(self.buffer[h])]

\* The loop of push_front_multiple over items.iter().rev(): `items` is the
\* part of the slice not yet visited, its last element is visited next.
RECURSIVE push_front_loop(_, _, _)
push_front_loop(self, items, added) ==
    IF items = <<>> THEN [self |-> self, ret |-> added]
    ELSE LET r == push_front(self, items[Len(items)])
         IN  IF r.ret
             THEN push_front_loop(r.self, SubSeq(items, 1, Len(items) - 1), added + 1)
             ELSE [self |-> r.self, ret |-> added]

RECURSIVE push_front_loop_forward(_, _, _)
push_front_loop_forward(self, items, added) ==
    IF items = <<>> THEN [self |-> self, ret |-> added]
    ELSE LET r == push_front(self, Head(items))
         IN  IF r.ret
             THEN push_front_loop_forward(r.self, Tail(items), added + 1)
             ELSE [self |-> r.self, ret |-> added]

push_front_multiple_prefix(self, items) ==
    push_front_loop(self, SubSeq(items, 1, Min(Len(items), self.N - self.count)), 0)
push_front_multiple_forward(self, items) == push_front_loop_forward(self, items, 0)
push_front_multiple(self, items) == push_front_loop(self, items, 0)

\* The loop of push_back_multiple over items.iter().
RECURSIVE push_back_loop(_, _, _)
push_back_loop(self, items, added) ==
    IF items = <<>> THEN [self |-> self, ret |-> added]
    ELSE LET r == push_back(self, Head(items))
         IN  IF r.ret
             THEN push_back_loop(r.self, Tail(items), added + 1)
             ELSE [self |-> r.self, ret |-> added]

push_back_multiple_counts_attempts(self, items) ==
    [self |-> push_back_loop(self, items, 0).self, ret |-> Len(items)]
push_back_multiple(self, items) == push_back_loop(self, items, 0)

front(self) ==
    IF is_empty(self) THEN NoneOpt ELSE Some(self.buffer[self.tail])

back_no_wrap(self) ==
    IF is_empty(self) THEN NoneOpt
    ELSE LET back_idx == IF self.head = 0 THEN 0 ELSE self.head - 1
         IN  Some(self.buffer[back_idx])
back(self) ==
    IF is_empty(self) THEN NoneOpt
    ELSE LET back_idx == IF self.head = 0 THEN self.N - 1 ELSE self.head - 1
         IN  Some(self.buffer[back_idx])

clear_keeps_tail(self) == [self EXCEPT !.head = 0, !.count = 0]
clear_count_only(self) == [self EXCEPT !.count = 0]
clear(self) == [self EXCEPT !.head = 0, !.tail = 0, !.count = 0]

\* RingBufferIter: `self` is [current, remaining]; its field `buffer`, the
\* shared borrow of the RingBuffer, is passed as the second argument.
iter_from_head(self) == [current |-> self.head, remaining |-> self.count]
iter(self) == [current |-> self.tail, remaining |-> self.count]

next_past_end(self, buffer) ==
    [self |-> [current |-> (self.current + 1) % buffer.N,
               remaining |-> self.remaining - 1],
     ret |-> Some(buffer.buffer[self.current])]
next(self, buffer) ==
    IF self.remaining = 0 THEN [self |-> self, ret |-> NoneOpt]
    ELSE [self |-> [current |-> (self.current + 1) % buffer.N,
                    remaining |-> self.remaining - 1],
          ret |-> Some(buffer.buffer[self.current])]

\* (usize, Option<usize>)
size_hint(self) == <<self.remaining, Some(self.remaining)>>

\* ---- the logical window -------------------------------------------------

\* Index of the i-th live slot (i = 1 is the front), walking forward from tail.
SlotAt(self, i) == (self.tail + i - 1) % self.N

LiveSlots(self) == {SlotAt(self, i) : i \in 1..self.count}

\* The values in the count slots walked forward from tail, front to back.
Contents(self) == [i \in 1..self.count |-> self.buffer[SlotAt(self, i)]]

\* ---- the abstract bounded deque of capacity n ---------------------------
\* A deque is a sequence, front first.  Each operation returns the deque
\* afterwards and the result of the call.

DqPushBack(d, n, x) ==
    IF Len(d) >= n THEN [d |-> d, ret |-> FALSE] ELSE [d |-> Append(d, x), ret |-> TRUE]

DqPushFront(d, n, x) ==
    IF Len(d) >= n THEN [d |-> d, ret |-> FALSE] ELSE [d |-> <<x>> \o d, ret |-> TRUE]

DqPopFront(d) ==
    IF d = <<>> THEN [d |-> d, ret |-> NoneOpt] ELSE [d |-> Tail(d), ret |-> Some(Head(d))]

DqPopBack(d) ==
    IF d = <<>> THEN [d |-> d, ret |-> NoneOpt]
    ELSE [d |-> SubSeq(d, 1, Len(d) - 1), ret |-> Some(d[Len(d)])]

\* A bulk call is run on the deque as the single calls it stands for.
RECURSIVE DqPushBackEach(_, _, _, _)
DqPushBackEach(d, n, items, added) ==
    IF items = <<>> THEN [d |-> d, ret |-> added]
    ELSE LET r == DqPushBack(d, n, Head(items))
         IN  IF r.ret THEN DqPushBackEach(r.d, n, Tail(items), added + 1)
             ELSE [d |-> r.d, ret |-> added]

RECURSIVE DqPushFrontEach(_, _, _, _)
DqPushFrontEach(d, n, items, added) ==
    IF items = <<>> THEN [d |-> d, ret |-> added]
    ELSE LET r == DqPushFront(d, n, items[Len(items)])
         IN  IF r.ret
             THEN DqPushFrontEach(r.d, n, SubSeq(items, 1, Len(items) - 1), added + 1)
             ELSE [d |-> r.d, ret |-> added]

\* ---- state --------------------------------------------------------------

VARIABLES
    rb,       \* the RingBuffer under test
    last,     \* the last call: its name, the items passed (one for a single
              \* push, the slice for a bulk push) and its bool / Option<T> /
              \* usize result
    dq,       \* the abstract deque run on the same calls
    dqLast,   \* the result the abstract deque gave for the last call
    fifo,     \* observer: push_back* then pop_front* since the buffer was empty
    lifo,     \* observer: push_front* then pop_front* since the buffer was empty
    streak,   \* observer: consecutive single pushes since the buffer was empty
    wrap,     \* observer: pop_front/push_back pairs since the buffer was full
    twin,     \* a buffer constructed afresh when rb was last cleared, given
              \* the same calls as rb since then
    twinLast, \* the result twin gave for the last call
    it,       \* the RingBufferIter borrowed from rb, if one is live
    yielded,  \* what its next() calls have returned so far
    prev,     \* what an earlier iterator yielded, to exhaustion, on rb as it is
    game,     \* the WarGame
    pc,       \* where WarGame::play stands: "round" (about to call play_round),
              \* "returned" (play_round has returned), "over" (play has returned)
    ret,      \* what the last play_round call returned
    hand,     \* a PlayerHand on its own
    handPot   \* the battle buffer that hand takes

vars == <<rb, last, dq, dqLast, fifo, lifo, streak, wrap, twin, twinLast,
          it, yielded, prev, game, pc, ret, hand, handPot>>

\* the variables the named specification does not use keep their first value
dequeVars == <<dq, dqLast, fifo, lifo, streak, wrap>>
twinVars == <<twin, twinLast>>
iterVars == <<it, yielded, prev>>
gameVars == <<game, pc, ret>>
handVars == <<hand, handPot>>

NotInSpec == <<twinVars, iterVars, gameVars, handVars>>
NotInSpecTwin == <<dequeVars, iterVars, gameVars, handVars>>
NotInSpecIter == <<dequeVars, twinVars, gameVars, handVars>>
NotInSpecGame == <<rb, last, dequeVars, twinVars, iterVars, handVars>>
NotInSpecBulk == <<dequeVars, twinVars, iterVars, gameVars, handVars>>
NotInSpecHand == <<rb, dequeVars, twinVars, iterVars, gameVars>>

Result(op, items, ok, opt, n) ==
    [op |-> op, items |-> items, ok |-> ok, opt |-> opt, n |-> n]

BoolResult(op, items, ok) == Result(op, items, ok, NoneOpt, 0)
OptResult(op, opt) == Result(op, <<>>, FALSE, opt, 0)
NumResult(op, items, n) == Result(op, items, FALSE, NoneOpt, n)

\* ---- observers ----------------------------------------------------------
\* An observer follows one calling pattern and switches off at the first call
\* outside it.  A call made on an empty buffer starts the fifo, lifo and
\* streak observers afresh; a call made on a full buffer starts the wrap
\* observer when it is off.

RunOff == [mode |-> "off", ins |-> <<>>, outs |-> <<>>]
RunStart == [mode |-> "start", ins |-> <<>>, outs |-> <<>>]

RunBase(run, self) == IF is_empty(self) THEN RunStart ELSE run

\* the observed insertion (push_back for fifo, push_front for lifo)
RunPush(run, self, item, ok) ==
    LET b == RunBase(run, self)
    IN  IF b.mode \in {"start", "push"} /\ ok
        THEN [mode |-> "push", ins |-> Append(b.ins, item), outs |-> b.outs]
        ELSE RunOff

RunPop(run, self, opt) ==
    LET b == RunBase(run, self)
    IN  IF b.mode \in {"push", "pop"} /\ Len(b.outs) < Len(b.ins)
        THEN [mode |-> "pop", ins |-> b.ins, outs |-> Append(b.outs, opt)]
        ELSE RunOff

StreakOff == 0 - 1

StreakPush(self) ==
    LET b == IF is_empty(self) THEN 0 ELSE streak
    IN  IF b >= 0 /\ b <= self.N THEN b + 1 ELSE StreakOff

WrapOff == [mode |-> "off", pending |-> <<>>, expect |-> NoneOpt, pairs |-> 0]

WrapBase(self) ==
    IF wrap.mode = "off" /\ is_full(self)
    THEN [mode |-> "full", pending |-> Contents(self), expect |-> NoneOpt, pairs |-> 0]
    ELSE wrap

WrapPop(self) ==
    LET b == WrapBase(self)
    IN  IF b.mode = "full" /\ b.pending # <<>> /\ b.pairs < MaxPairs
        THEN [mode |-> "popped", pending |-> Tail(b.pending),
              expect |-> Some(Head(b.pending)), pairs |-> b.pairs]
        ELSE WrapOff

WrapPush(self, item) ==
    LET b == WrapBase(self)
    IN  IF b.mode = "popped"
        THEN [mode |-> "full", pending |-> Append(b.pending, item),
              expect |-> NoneOpt, pairs |-> b.pairs + 1]
        ELSE WrapOff

ObserversOff ==
    /\ fifo' = RunOff
    /\ lifo' = RunOff
    /\ streak' = StreakOff
    /\ wrap' = WrapOff

\* ---- operations ---------------------------------------------------------

RingInit(capacities) ==
    /\ \E n \in capacities : rb = new(n, FillValue)
    /\ last = BoolResult("new", <<>>, FALSE)

DequeInit ==
    /\ dq = <<>>
    /\ dqLast = BoolResult("new", <<>>, FALSE)
    /\ fifo = RunOff
    /\ lifo = RunOff
    /\ streak = StreakOff
    /\ wrap = WrapOff

TwinIdle ==
    /\ twin = new(0, FillValue)
    /\ twinLast = BoolResult("new", <<>>, FALSE)

NoIter == [live |-> FALSE, current |-> 0, remaining |-> 0]
NoPrev == [known |-> FALSE, seq |-> <<>>]

IterIdle ==
    /\ it = NoIter
    /\ yielded = <<>>
    /\ prev = NoPrev

GameIdle ==
    /\ game = <<>>
    /\ pc = "idle"
    /\ ret = <<>>

HandIdle ==
    /\ hand = <<>>
    /\ handPot = <<>>

Init ==
    /\ RingInit(Capacities)
    /\ DequeInit
    /\ TwinIdle
    /\ IterIdle
    /\ GameIdle
    /\ HandIdle

PushBack(item) ==
    LET r == push_back(rb, item)
        a == DqPushBack(dq, rb.N, item)
    IN  /\ rb' = r.self
        /\ last' = BoolResult("push_back", <<item>>, r.ret)
        /\ dq' = a.d
        /\ dqLast' = BoolResult("push_back", <<item>>, a.ret)
        /\ fifo' = RunPush(fifo, rb, item, r.ret)
        /\ lifo' = RunOff
        /\ streak' = StreakPush(rb)
        /\ wrap' = WrapPush(rb, item)
        /\ UNCHANGED NotInSpec

PushFront(item) ==
    LET r == push_front(rb, item)
        a == DqPushFront(dq, rb.N, item)
    IN  /\ rb' = r.self
        /\ last' = BoolResult("push_front", <<item>>, r.ret)
        /\ dq' = a.d
        /\ dqLast' = BoolResult("push_front", <<item>>, a.ret)
        /\ fifo' = RunOff
        /\ lifo' = RunPush(lifo, rb, item, r.ret)
        /\ streak' = StreakPush(rb)
        /\ wrap' = WrapOff
        /\ UNCHANGED NotInSpec

PopFront ==
    LET r == pop_front(rb)
        a == DqPopFront(dq)
    IN  /\ rb' = r.self
        /\ last' = OptResult("pop_front", r.ret)
        /\ dq' = a.d
        /\ dqLast' = OptResult("pop_front", a.ret)
        /\ fifo' = RunPop(fifo, rb, r.ret)
        /\ lifo' = RunPop(lifo, rb, r.ret)
        /\ streak' = StreakOff
        /\ wrap' = WrapPop(rb)
        /\ UNCHANGED NotInSpec

PopBack ==
    LET r == pop_back(rb)
        a == DqPopBack(dq)
    IN  /\ rb' = r.self
        /\ last' = OptResult("pop_back", r.ret)
        /\ dq' = a.d
        /\ dqLast' = OptResult("pop_back", a.ret)
        /\ ObserversOff
        /\ UNCHANGED NotInSpec

Front ==
    /\ last' = OptResult("front", front(rb))
    /\ dqLast' = OptResult("front", IF dq = <<>> THEN NoneOpt ELSE Some(Head(dq)))
    /\ ObserversOff
    /\ UNCHANGED <<rb, dq>>
    /\ UNCHANGED NotInSpec

Back ==
    /\ last' = OptResult("back", back(rb))
    /\ dqLast' = OptResult("back", IF dq = <<>> THEN NoneOpt ELSE Some(dq[Len(dq)]))
    /\ ObserversOff
    /\ UNCHANGED <<rb, dq>>
    /\ UNCHANGED NotInSpec

Clear ==
    /\ rb' = clear(rb)
    /\ last' = BoolResult("clear", <<>>, FALSE)
    /\ dq' = <<>>
    /\ dqLast' = BoolResult("clear", <<>>, FALSE)
    /\ ObserversOff
    /\ UNCHANGED NotInSpec

PushBackMultiple(items) ==
    LET r == push_back_multiple(rb, items)
        a == DqPushBackEach(dq, rb.N, items, 0)
    IN  /\ rb' = r.self
        /\ last' = NumResult("push_back_multiple", items, r.ret)
        /\ dq' = a.d
        /\ dqLast' = NumResult("push_back_multiple", items, a.ret)
        /\ ObserversOff
        /\ UNCHANGED NotInSpec

PushFrontMultiple(items) ==
    LET r == push_front_multiple(rb, items)
        a == DqPushFrontEach(dq, rb.N, items, 0)
    IN  /\ rb' = r.self
        /\ last' = NumResult("push_front_multiple", items, r.ret)
        /\ dq' = a.d
        /\ dqLast' = NumResult("push_front_multiple", items, a.ret)
        /\ ObserversOff
        /\ UNCHANGED NotInSpec

Next ==
    \/ \E item \in Val : PushBack(item)
    \/ \E item \in Val : PushFront(item)
    \/ PopFront
    \/ PopBack
    \/ Front
    \/ Back
    \/ Clear
    \/ \E items \in Slices : PushBackMultiple(items)
    \/ \E items \in Slices : PushFrontMultiple(items)

Spec == Init /\ [][Next]_vars

\* The const parameter N is any usize: RingBuffer::<T, 0>::new compiles and
\* runs, so construction with capacity 0 is part of what the code admits.
InitAnyCapacity ==
    /\ RingInit(0..MaxN)
    /\ DequeInit
    /\ TwinIdle
    /\ IterIdle
    /\ GameIdle
    /\ HandIdle

SpecAnyCapacity == InitAnyCapacity /\ [][Next]_vars

TypeOK ==
    /\ rb.N \in Capacities
    /\ DOMAIN rb.buffer = 0..(rb.N - 1)
    /\ \A i \in DOMAIN rb.buffer : rb.buffer[i] \in Val \cup {FillValue}

\* ---- a cleared buffer beside a fresh one --------------------------------
\* SpecTwin gives every call to rb and to twin.  clear() is called on rb
\* only, and twin is then constructed anew with rb's capacity.  Here `last`
\* and `twinLast` hold the name and the result of the call, not its items.

TwinInit ==
    /\ RingInit(Capacities)
    /\ twin = rb
    /\ twinLast = last
    /\ DequeInit
    /\ IterIdle
    /\ GameIdle
    /\ HandIdle

TwinPushBack(item) ==
    LET r == push_back(rb, item)
        t == push_back(twin, item)
    IN  /\ rb' = r.self
        /\ last' = BoolResult("push_back", <<>>, r.ret)
        /\ twin' = t.self
        /\ twinLast' = BoolResult("push_back", <<>>, t.ret)
        /\ UNCHANGED NotInSpecTwin

TwinPushFront(item) ==
    LET r == push_front(rb, item)
        t == push_front(twin, item)
    IN  /\ rb' = r.self
        /\ last' = BoolResult("push_front", <<>>, r.ret)
        /\ twin' = t.self
        /\ twinLast' = BoolResult("push_front", <<>>, t.ret)
        /\ UNCHANGED NotInSpecTwin

TwinPopFront ==
    LET r == pop_front(rb)
        t == pop_front(twin)
    IN  /\ rb' = r.self
        /\ last' = OptResult("pop_front", r.ret)
        /\ twin' = t.self
        /\ twinLast' = OptResult("pop_front", t.ret)
        /\ UNCHANGED NotInSpecTwin

TwinPopBack ==
    LET r == pop_back(rb)
        t == pop_back(twin)
    IN  /\ rb' = r.self
        /\ last' = OptResult("pop_back", r.ret)
        /\ twin' = t.self
        /\ twinLast' = OptResult("pop_back", t.ret)
        /\ UNCHANGED NotInSpecTwin

TwinFront ==
    /\ last' = OptResult("front", front(rb))
    /\ twinLast' = OptResult("front", front(twin))
    /\ UNCHANGED <<rb, twin>>
    /\ UNCHANGED NotInSpecTwin

TwinBack ==
    /\ last' = OptResult("back", back(rb))
    /\ twinLast' = OptResult("back", back(twin))
    /\ UNCHANGED <<rb, twin>>
    /\ UNCHANGED NotInSpecTwin

TwinPushBackMultiple(items) ==
    LET r == push_back_multiple(rb, items)
        t == push_back_multiple(twin, items)
    IN  /\ rb' = r.self
        /\ last' = NumResult("push_back_multiple", <<>>, r.ret)
        /\ twin' = t.self
        /\ twinLast' = NumResult("push_back_multiple", <<>>, t.ret)
        /\ UNCHANGED NotInSpecTwin

TwinPushFrontMultiple(items) ==
    LET r == push_front_multiple(rb, items)
        t == push_front_multiple(twin, items)
    IN  /\ rb' = r.self
        /\ last' = NumResult("push_front_multiple", <<>>, r.ret)
        /\ twin' = t.self
        /\ twinLast' = NumResult("push_front_multiple", <<>>, t.ret)
        /\ UNCHANGED NotInSpecTwin

TwinClear ==
    /\ rb' = clear(rb)
    /\ last' = BoolResult("clear", <<>>, FALSE)
    /\ twin' = new(capacity(rb), FillValue)
    /\ twinLast' = BoolResult("clear", <<>>, FALSE)
    /\ UNCHANGED NotInSpecTwin

TwinNext ==
    \/ \E item \in Val : TwinPushBack(item)
    \/ \E item \in Val : TwinPushFront(item)
    \/ TwinPopFront
    \/ TwinPopBack
    \/ TwinFront
    \/ TwinBack
    \/ \E items \in Slices : TwinPushBackMultiple(items)
    \/ \E items \in Slices : TwinPushFrontMultiple(items)
    \/ TwinClear

SpecTwin == TwinInit /\ [][TwinNext]_vars

\* ---- queries and iteration ----------------------------------------------
\* SpecIter adds the &self operations.  An iterator borrows rb, so a call
\* that takes &mut self can only be made once the iterator is gone: every
\* mutation ends the iteration.  A query may be made while an iterator is
\* live.  Here `last` holds the name and the result of the call.

IterInit ==
    /\ RingInit(Capacities)
    /\ IterIdle
    /\ DequeInit
    /\ TwinIdle
    /\ GameIdle
    /\ HandIdle

IterationEnds ==
    /\ it' = NoIter
    /\ yielded' = <<>>
    /\ prev' = NoPrev

MutPushBack(item) ==
    LET r == push_back(rb, item)
    IN  /\ rb' = r.self
        /\ last' = BoolResult("push_back", <<>>, r.ret)
        /\ IterationEnds
        /\ UNCHANGED NotInSpecIter

MutPushFront(item) ==
    LET r == push_front(rb, item)
    IN  /\ rb' = r.self
        /\ last' = BoolResult("push_front", <<>>, r.ret)
        /\ IterationEnds
        /\ UNCHANGED NotInSpecIter

MutPopFront ==
    LET r == pop_front(rb)
    IN  /\ rb' = r.self
        /\ last' = OptResult("pop_front", r.ret)
        /\ IterationEnds
        /\ UNCHANGED NotInSpecIter

MutPopBack ==
    LET r == pop_back(rb)
    IN  /\ rb' = r.self
        /\ last' = OptResult("pop_back", r.ret)
        /\ IterationEnds
        /\ UNCHANGED NotInSpecIter

MutClear ==
    /\ rb' = clear(rb)
    /\ last' = BoolResult("clear", <<>>, FALSE)
    /\ IterationEnds
    /\ UNCHANGED NotInSpecIter

QueryLen ==
    /\ last' = NumResult("len", <<>>, len(rb))
    /\ UNCHANGED <<rb, it, yielded, prev>>
    /\ UNCHANGED NotInSpecIter

QueryIsEmpty ==
    /\ last' = BoolResult("is_empty", <<>>, is_empty(rb))
    /\ UNCHANGED <<rb, it, yielded, prev>>
    /\ UNCHANGED NotInSpecIter

QueryIsFull ==
    /\ last' = BoolResult("is_full", <<>>, is_full(rb))
    /\ UNCHANGED <<rb, it, yielded, prev>>
    /\ UNCHANGED NotInSpecIter

QueryCapacity ==
    /\ last' = NumResult("capacity", <<>>, capacity(rb))
    /\ UNCHANGED <<rb, it, yielded, prev>>
    /\ UNCHANGED NotInSpecIter

QueryFront_pops ==
    /\ last' = OptResult("front", front(rb))
    /\ rb' = pop_front(rb).self
    /\ UNCHANGED <<it, yielded, prev>>
    /\ UNCHANGED NotInSpecIter
QueryFront ==
    /\ last' = OptResult("front", front(rb))
    /\ UNCHANGED <<rb, it, yielded, prev>>
    /\ UNCHANGED NotInSpecIter

QueryBack ==
    /\ last' = OptResult("back", back(rb))
    /\ UNCHANGED <<rb, it, yielded, prev>>
    /\ UNCHANGED NotInSpecIter

\* iter(): a new iterator; what the one it replaces yielded is kept if that
\* one was run to exhaustion
Iter ==
    /\ it' = [live |-> TRUE] @@ iter(rb)
    /\ yielded' = <<>>
    /\ prev' = IF it.live /\ it.remaining = 0
               THEN [known |-> TRUE, seq |-> yielded]
               ELSE prev
    /\ last' = BoolResult("iter", <<>>, FALSE)
    /\ UNCHANGED rb
    /\ UNCHANGED NotInSpecIter

IterNext ==
    /\ it.live
    /\ Len(yielded) < rb.count + MaxNones
    /\ LET r == next([current |-> it.current, remaining |-> it.remaining], rb)
       IN  /\ it' = [live |-> TRUE] @@ r.self
           /\ yielded' = Append(yielded, r.ret)
           /\ last' = OptResult("next", r.ret)
    /\ UNCHANGED <<rb, prev>>
    /\ UNCHANGED NotInSpecIter

SizeHint ==
    /\ it.live
    /\ LET h == size_hint([current |-> it.current, remaining |-> it.remaining])
       IN  last' = Result("size_hint", <<>>, FALSE, h[2], h[1])
    /\ UNCHANGED <<rb, it, yielded, prev>>
    /\ UNCHANGED NotInSpecIter

IterNextStep ==
    \/ \E item \in Val : MutPushBack(item)
    \/ \E item \in Val : MutPushFront(item)
    \/ MutPopFront
    \/ MutPopBack
    \/ MutClear
    \/ QueryLen
    \/ QueryIsEmpty
    \/ QueryIsFull
    \/ QueryCapacity
    \/ QueryFront
    \/ QueryBack
    \/ Iter
    \/ IterNext
    \/ SizeHint

SpecIter == IterInit /\ [][IterNextStep]_vars

\* ---- push_front_multiple with longer slices ------------------------------

BulkSlices == SeqsUpTo(MaxBulk)

BulkInit ==
    /\ RingInit(Capacities)
    /\ DequeInit
    /\ TwinIdle
    /\ IterIdle
    /\ GameIdle
    /\ HandIdle

BulkPushBack(item) ==
    LET r == push_back(rb, item)
    IN  /\ rb' = r.self
        /\ last' = BoolResult("push_back", <<item>>, r.ret)
        /\ UNCHANGED NotInSpecBulk

BulkPopFront ==
    LET r == pop_front(rb)
    IN  /\ rb' = r.self
        /\ last' = OptResult("pop_front", r.ret)
        /\ UNCHANGED NotInSpecBulk

BulkPushFrontMultiple(items) ==
    LET r == push_front_multiple(rb, items)
    IN  /\ rb' = r.self
        /\ last' = NumResult("push_front_multiple", items, r.ret)
        /\ UNCHANGED NotInSpecBulk

BulkNext ==
    \/ \E item \in Val : BulkPushBack(item)
    \/ BulkPopFront
    \/ \E items \in BulkSlices : BulkPushFrontMultiple(items)

SpecBulk == BulkInit /\ [][BulkNext]_vars

\* ---- cards ---------------------------------------------------------------

DeckSize == 52         \* Deck::cards
HandCapacity == 52     \* PlayerHand::cards
BattleCapacity == 52   \* WarGame::battle_buffer

Hearts == 0
Two == 2
Suits == 0..3          \* Hearts, Spades, Clubs, Diamonds
Ranks == 2..14         \* Two .. Ace

\* Card::new: a u8 holding the rank in bits 2..7 and the suit in bits 0..1.
Card(suit, rank) == (((rank % 64) * 4) % 256) + (suit % 4)

\* Card::value
value(card) == (card \div 4) % 64

\* Deck::new: the cards as a function on 0..DeckSize-1, suit by suit.
DeckNew ==
    [index \in 0..(DeckSize - 1) |->
        Card(index \div Cardinality(Ranks), 2 + (index % Cardinality(Ranks)))]

\* The generator behind a seeded shuffle, as a sequence of draws: a linear
\* congruential step stands for StdRng, whose stream is not modelled.
NextRandom(x) == (x * 75 + 74) % 65537

\* slice::shuffle: for i from len-1 down to 1, swap cards[i] with cards[j],
\* j drawn from 0..i.
RECURSIVE shuffle_loop(_, _, _)
shuffle_loop(cards, i, x) ==
    IF i < 1 THEN cards
    ELSE LET j == x % (i + 1)
         IN  shuffle_loop([cards EXCEPT ![i] = cards[j], ![j] = cards[i]],
                          i - 1, NextRandom(x))

\* Deck::shuffle_with_seed
shuffle_with_seed(cards, seed) ==
    shuffle_loop(cards, DeckSize - 1, NextRandom(seed + 1))

Seeds == 0..MaxSeed

\* PlayerHand is [cards |-> RingBuffer<Card, 52>].
hand_new_half == [cards |-> new(DeckSize \div 2, Card(Hearts, Two))]
hand_new == [cards |-> new(HandCapacity, Card(Hearts, Two))]

hand_len(self) == len(self.cards)

hand_is_empty(self) == is_empty(self.cards)

\* PlayerHand::draw_card
hand_draw_card(self) ==
    LET r == pop_back(self.cards)
    IN  [self |-> [cards |-> r.self], ret |-> r.ret]

add_card_front(self, card) == [cards |-> push_front(self.cards, card).self]

\* PlayerHand::add_card
add_card(self, card) == [cards |-> push_back(self.cards, card).self]

\* The loop of take_battle_cards: `itr` is battle_buffer.iter() as far as it
\* has been advanced.
RECURSIVE take_battle_loop(_, _, _)
take_battle_loop(self, itr, battle_buffer) ==
    LET n == next(itr, battle_buffer)
    IN  IF n.ret = NoneOpt THEN self
        ELSE take_battle_loop([cards |-> push_front(self.cards, n.ret[1]).self],
                              n.self, battle_buffer)

\* taking the cards as push_front_multiple does, first card frontmost
take_battle_cards_in_order(self, battle_buffer) ==
    [cards |-> push_front_multiple(self.cards, Contents(battle_buffer)).self]

\* PlayerHand::take_battle_cards
take_battle_cards(self, battle_buffer) ==
    take_battle_loop(self, iter(battle_buffer), battle_buffer)

\* The loop of Deck::split from card i on: card i goes to player 1 when i is
\* even.  (The singleton {dealt} has the hands after this iteration evaluated
\* before the loop goes on.)
RECURSIVE split_loop(_, _, _)
split_loop(cards, i, hands) ==
    IF i >= DeckSize THEN hands
    ELSE LET dealt == IF i % 2 = 0
                      THEN <<add_card(hands[1], cards[i]), hands[2]>>
                      ELSE <<hands[1], add_card(hands[2], cards[i])>>
         IN  CHOOSE r \in {split_loop(cards, i + 1, h) : h \in {dealt}} : TRUE

\* Deck::split
split(cards) == split_loop(cards, 0, <<hand_new, hand_new>>)

\* ---- WarGame -------------------------------------------------------------

BurnCards == 3          \* cards each player burns in a war
TestModeRounds == 20    \* max_rounds in test mode
NormalRounds == 10000   \* max_rounds otherwise

\* GameResult<Option<usize>>: Ok(None), Ok(Some(winner)), Err(error).
Ok(opt) == [ok |-> TRUE, winner |-> opt, err |-> ""]
Err(error) == [ok |-> FALSE, winner |-> NoneOpt, err |-> error]

\* WarGame::new_with_seed
new_with_seed(test_mode, interactive, seed) ==
    LET hands == split(shuffle_with_seed(DeckNew, seed))
    IN  [player1_cards |-> hands[1],
         player2_cards |-> hands[2],
         battle_buffer |-> new(BattleCapacity, Card(Hearts, Two)),
         round |-> 0,
         test_mode |-> test_mode,
         interactive |-> interactive]

\* WarGame::draw_card: [self, err, ret], ret the Option<Card> when err is "".
draw_card(self, player) ==
    IF player = 1
    THEN LET r == hand_draw_card(self.player1_cards)
         IN  [self |-> [self EXCEPT !.player1_cards = r.self],
              err |-> "", ret |-> r.ret]
    ELSE IF player = 2
    THEN LET r == hand_draw_card(self.player2_cards)
         IN  [self |-> [self EXCEPT !.player2_cards = r.self],
              err |-> "", ret |-> r.ret]
    ELSE [self |-> self, err |-> "InvalidPlayerNumber", ret |-> NoneOpt]

add_cards_to_winner_keeps_pot(self, winner) ==
    IF winner = 1
    THEN [self |-> [self EXCEPT !.player1_cards =
                       take_battle_cards(self.player1_cards, self.battle_buffer)],
          err |-> ""]
    ELSE IF winner = 2
    THEN [self |-> [self EXCEPT !.player2_cards =
                       take_battle_cards(self.player2_cards, self.battle_buffer)],
          err |-> ""]
    ELSE [self |-> self, err |-> "InvalidPlayerNumber"]

\* WarGame::add_cards_to_winner: [self, err].
add_cards_to_winner(self, winner) ==
    IF winner = 1
    THEN [self |-> [self EXCEPT
                       !.player1_cards =
                           take_battle_cards(self.player1_cards, self.battle_buffer),
                       !.battle_buffer = clear(self.battle_buffer)],
          err |-> ""]
    ELSE IF winner = 2
    THEN [self |-> [self EXCEPT
                       !.player2_cards =
                           take_battle_cards(self.player2_cards, self.battle_buffer),
                       !.battle_buffer = clear(self.battle_buffer)],
          err |-> ""]
    ELSE [self |-> self, err |-> "InvalidPlayerNumber"]

\* self.add_cards_to_winner(winner)? followed by the end of play_round:
\* wait_for_space returns Ok(()) at once when the game is not interactive,
\* and play_round returns Ok(None).
won_by(self, winner) ==
    LET added == add_cards_to_winner(self, winner)
    IN  [self |-> added.self,
         ret |-> IF added.err # "" THEN Err(added.err) ELSE Ok(NoneOpt)]

\* self.battle_buffer.push_back(card)
to_battle(self, card) ==
    [self EXCEPT !.battle_buffer = push_back(self.battle_buffer, card).self]

\* The burn loop of a war, for i in 1..=3: ret is Some(what play_round
\* returns) when the loop is left by a return, None when the loop ended.
RECURSIVE burn_loop(_, _)
burn_loop(self, i) ==
    IF i > BurnCards THEN [self |-> self, ret |-> NoneOpt]
    ELSE LET burn1 == draw_card(self, 1)
         IN  IF burn1.err # "" THEN [self |-> burn1.self, ret |-> Some(Err(burn1.err))]
             ELSE IF burn1.ret = NoneOpt
             THEN [self |-> burn1.self, ret |-> Some(Ok(Some(2)))]
             ELSE LET burn2 == draw_card(to_battle(burn1.self, burn1.ret[1]), 2)
                  IN  IF burn2.err # ""
                      THEN [self |-> burn2.self, ret |-> Some(Err(burn2.err))]
                      ELSE IF burn2.ret = NoneOpt
                      THEN [self |-> burn2.self, ret |-> Some(Ok(Some(1)))]
                      ELSE burn_loop(to_battle(burn2.self, burn2.ret[1]), i + 1)

\* The deciding cards of a war, after the burn loop.
war_decide_tie_to_2(self) ==
    LET war1 == draw_card(self, 1)
    IN  IF war1.err # "" THEN [self |-> war1.self, ret |-> Err(war1.err)]
        ELSE IF war1.ret = NoneOpt THEN [self |-> war1.self, ret |-> Ok(Some(2))]
        ELSE LET war2 == draw_card(war1.self, 2)
             IN  IF war2.err # "" THEN [self |-> war2.self, ret |-> Err(war2.err)]
                 ELSE IF war2.ret = NoneOpt
                 THEN [self |-> war2.self, ret |-> Ok(Some(1))]
                 ELSE LET war_card1 == war1.ret[1]
                          war_card2 == war2.ret[1]
                          pot == to_battle(to_battle(war2.self, war_card1),
                                           war_card2)
                      IN  IF value(war_card1) > value(war_card2)
                          THEN won_by(pot, 1)
                          ELSE IF value(war_card2) > value(war_card1)
                          THEN won_by(pot, 2)
                          ELSE won_by(pot, 2)
war_decide(self) ==
    LET war1 == draw_card(self, 1)
    IN  IF war1.err # "" THEN [self |-> war1.self, ret |-> Err(war1.err)]
        ELSE IF war1.ret = NoneOpt THEN [self |-> war1.self, ret |-> Ok(Some(2))]
        ELSE LET war2 == draw_card(war1.self, 2)
             IN  IF war2.err # "" THEN [self |-> war2.self, ret |-> Err(war2.err)]
                 ELSE IF war2.ret = NoneOpt
                 THEN [self |-> war2.self, ret |-> Ok(Some(1))]
                 ELSE LET war_card1 == war1.ret[1]
                          war_card2 == war2.ret[1]
                          pot == to_battle(to_battle(war2.self, war_card1),
                                           war_card2)
                      IN  IF value(war_card1) > value(war_card2)
                          THEN won_by(pot, 1)
                          ELSE IF value(war_card2) > value(war_card1)
                          THEN won_by(pot, 2)
                          ELSE won_by(pot, 1)

\* The war branch of play_round; wait_for_space returns Ok(()) at once when
\* the game is not interactive.
war(self) ==
    LET burnt == burn_loop(self, 1)
    IN  IF burnt.ret # NoneOpt THEN [self |-> burnt.self, ret |-> burnt.ret[1]]
        ELSE war_decide(burnt.self)

\* play_round after the two emptiness checks.
battle(self) ==
    LET cleared == [self EXCEPT !.battle_buffer = clear(self.battle_buffer)]
        draw1 == draw_card(cleared, 1)
    IN  IF draw1.err # "" THEN [self |-> draw1.self, ret |-> Err(draw1.err)]
        ELSE IF draw1.ret = NoneOpt
        THEN [self |-> draw1.self, ret |-> Err("PlayerOutOfCards")]
        ELSE LET draw2 == draw_card(draw1.self, 2)
             IN  IF draw2.err # "" THEN [self |-> draw2.self, ret |-> Err(draw2.err)]
                 ELSE IF draw2.ret = NoneOpt
                 THEN [self |-> draw2.self, ret |-> Err("PlayerOutOfCards")]
                 ELSE LET card1 == draw1.ret[1]
                          card2 == draw2.ret[1]
                          pot == to_battle(to_battle(draw2.self, card1), card2)
                      IN  IF value(card1) > value(card2) THEN won_by(pot, 1)
                          ELSE IF value(card2) > value(card1) THEN won_by(pot, 2)
                          ELSE war(pot)

\* WarGame::play_round: [self, ret].
play_round_keeps_round(self) ==
    IF hand_is_empty(self.player1_cards)
    THEN [self |-> self, ret |-> Ok(Some(2))]
    ELSE IF hand_is_empty(self.player2_cards)
    THEN [self |-> self, ret |-> Ok(Some(1))]
    ELSE battle(self)
play_round_unchecked(self) ==
    battle([self EXCEPT !.round = self.round + 1])
play_round_names_loser(self) ==
    LET counted == [self EXCEPT !.round = self.round + 1]
    IN  IF hand_is_empty(counted.player1_cards)
        THEN [self |-> counted, ret |-> Ok(Some(1))]
        ELSE IF hand_is_empty(counted.player2_cards)
        THEN [self |-> counted, ret |-> Ok(Some(2))]
        ELSE battle(counted)
play_round(self) ==
    LET counted == [self EXCEPT !.round = self.round + 1]
    IN  IF hand_is_empty(counted.player1_cards)
        THEN [self |-> counted, ret |-> Ok(Some(2))]
        ELSE IF hand_is_empty(counted.player2_cards)
        THEN [self |-> counted, ret |-> Ok(Some(1))]
        ELSE battle(counted)

\* max_rounds of WarGame::play
max_rounds(self) == IF self.test_mode THEN TestModeRounds ELSE NormalRounds

\* The check of the round limit at the end of an iteration of play's loop.
limit_reached_past(self) == self.round > max_rounds(self)
limit_reached(self) == self.round >= max_rounds(self)

\* ---- play ----------------------------------------------------------------

RingIdle ==
    /\ rb = new(0, FillValue)
    /\ last = BoolResult("new", <<>>, FALSE)

\* A non-interactive game on a deck shuffled with one of the seeds, in test
\* mode or not, at the start of WarGame::play's loop.
GameInit ==
    /\ \E seed \in Seeds, test_mode \in BOOLEAN :
           game = new_with_seed(test_mode, FALSE, seed)
    /\ pc = "round"
    /\ ret = Ok(NoneOpt)
    /\ RingIdle
    /\ DequeInit
    /\ TwinIdle
    /\ IterIdle
    /\ HandIdle

\* self.play_round() in the loop of play.
PlayRound ==
    /\ pc = "round"
    /\ LET r == play_round(game)
       IN  /\ game' = r.self
           /\ ret' = r.ret
    /\ pc' = "returned"
    /\ UNCHANGED NotInSpecGame

\* The rest of an iteration of the loop: `?` returns the error, a winner
\* breaks, and so does the round limit; otherwise the loop goes round.
PlayCheck ==
    /\ pc = "returned"
    /\ pc' = IF ~ret.ok THEN "over"
             ELSE IF ret.winner # NoneOpt THEN "over"
             ELSE IF limit_reached(game) THEN "over"
             ELSE "round"
    /\ UNCHANGED <<game, ret>>
    /\ UNCHANGED NotInSpecGame

GameNext ==
    \/ PlayRound
    \/ PlayCheck

SpecGame == GameInit /\ [][GameNext]_vars

\* A step of play that has not returned yet, seen on pc alone.
Running ==
    /\ pc \in {"round", "returned"}
    /\ pc' \in {"round", "returned", "over"}

\* The program runs on until play returns.  GameNext is enabled exactly when
\* pc is not "over" and each of its steps changes pc, so this is weak
\* fairness of GameNext.
SpecGameFair == SpecGame /\ WF_pc(Running)

\* ---- a hand taking a battle buffer --------------------------------------

\* A buffer of capacity n whose count slots from tail on hold contents, as
\* pushes and pops of a new buffer leave it; the other slots hold the fill.
BufferOf(n, tail, contents) ==
    [N |-> n,
     buffer |-> [i \in 0..(n - 1) |->
                    IF (i + n - tail) % n < Len(contents)
                    THEN contents[((i + n - tail) % n) + 1]
                    ELSE FillValue],
     head |-> (tail + Len(contents)) % n,
     tail |-> tail,
     count |-> Len(contents)]

Buffers(n) ==
    {BufferOf(n, tail, contents) :
        tail \in 0..(n - 1), contents \in {s \in SeqsUpTo(MaxN) : Len(s) <= n}}

\* A hand and a battle buffer of one capacity, each with any contents.
HandInit ==
    /\ \E n \in Capacities :
        \E cards \in Buffers(n), battle_buffer \in Buffers(n) :
            /\ hand = [cards |-> cards]
            /\ handPot = battle_buffer
    /\ last = BoolResult("new", <<>>, FALSE)
    /\ rb = new(0, FillValue)
    /\ DequeInit
    /\ TwinIdle
    /\ IterIdle
    /\ GameIdle

TakeBattleCards ==
    /\ hand' = take_battle_cards(hand, handPot)
    /\ last' = BoolResult("take_battle_cards", <<>>, FALSE)
    /\ UNCHANGED handPot
    /\ UNCHANGED NotInSpecHand

HandNext == TakeBattleCards

SpecHand == HandInit /\ [][HandNext]_vars

\* ---- properties ---------------------------------------------------------

\* C1: run on the same calls, the ring buffer and the abstract bounded deque
\* of the same capacity give the same result for every call, and the values
\* in the count slots walked forward from tail are the deque's contents
\* front to back.
C1_RefinesDeque ==
    /\ Contents(rb) = dq
    /\ last = dqLast

\* a pop_back returned a value and left a logical window of two or more
\* values that wraps past the end of the storage
C1_Witness ==
    /\ last.op = "pop_back"
    /\ last.opt # NoneOpt
    /\ rb.tail > rb.head
    /\ rb.count >= 2

\* C2: count stays within 0..N in every reachable state, and no step changes
\* the value of a slot that was live before it.
NoLiveSlotOverwritten ==
    \A i \in LiveSlots(rb) : rb'.buffer[i] = rb.buffer[i]

C2_CountBoundedNoOverwrite ==
    /\ [](rb.count \in 0..rb.N)
    /\ [][NoLiveSlotOverwritten /\ rb'.count \in 0..rb'.N]_vars

\* a bulk push was cut short by a buffer that is now full
C2_Witness ==
    /\ last.op \in {"push_back_multiple", "push_front_multiple"}
    /\ last.n >= 1
    /\ last.n < Len(last.items)
    /\ rb.count = rb.N

\* C3: a push_back or push_front made on a full buffer returns false and
\* leaves head, tail, count and the live elements as they were.
C3_Saturation ==
    [][(is_full(rb) /\ last'.op \in {"push_back", "push_front"})
        => /\ last'.ok = FALSE
           /\ rb'.head = rb.head
           /\ rb'.tail = rb.tail
           /\ rb'.count = rb.count
           /\ Contents(rb') = Contents(rb)]_vars

C3_Witness ==
    /\ last.op = "push_front"
    /\ last.ok = FALSE
    /\ is_full(rb)
    /\ rb.N >= 2

\* C4: pop_front, pop_back, front and back made on an empty buffer return
\* None and leave head, tail and count as they were, whatever the slots hold.
C4_Exhaustion ==
    [][(is_empty(rb) /\ last'.op \in {"pop_front", "pop_back", "front", "back"})
        => /\ last'.opt = NoneOpt
           /\ rb'.head = rb.head
           /\ rb'.tail = rb.tail
           /\ rb'.count = rb.count]_vars

\* a pop on an empty buffer whose front and back slots hold values pushed
\* earlier returned None
C4_Witness ==
    /\ last.op \in {"pop_front", "pop_back"}
    /\ last.opt = NoneOpt
    /\ is_empty(rb)
    /\ rb.buffer[rb.tail] # FillValue
    /\ rb.buffer[IF rb.head = 0 THEN rb.N - 1 ELSE rb.head - 1] # FillValue

\* C5: k <= N values inserted by push_back into an empty buffer and removed
\* by pop_front come out in the order they went in.
C5_Fifo ==
    fifo.mode = "pop"
        => fifo.outs = [i \in 1..Len(fifo.outs) |-> Some(fifo.ins[i])]

\* a full buffer's worth of values, not all equal, went through a window that
\* did not start at slot 0
C5_Witness ==
    /\ fifo.mode = "pop"
    /\ Len(fifo.outs) = Len(fifo.ins)
    /\ Len(fifo.ins) = rb.N
    /\ rb.N >= 2
    /\ rb.tail # 0
    /\ fifo.ins[1] # fifo.ins[2]

\* C6: k <= N values inserted by push_front into an empty buffer and removed
\* by pop_front come out in the reverse of insertion order, and the buffer
\* is empty after the k-th pop.
C6_LifoAtFront ==
    lifo.mode = "pop"
        => /\ lifo.outs = [i \in 1..Len(lifo.outs) |->
                              Some(lifo.ins[Len(lifo.ins) + 1 - i])]
           /\ (Len(lifo.outs) = Len(lifo.ins) => is_empty(rb))

\* the run began with tail = 0, so the first push_front wrapped tail to N-1
C6_Witness ==
    /\ lifo.mode = "pop"
    /\ Len(lifo.outs) = Len(lifo.ins)
    /\ Len(lifo.ins) = rb.N
    /\ rb.N >= 2
    /\ rb.tail = 0
    /\ lifo.ins[1] # lifo.ins[2]

\* C7: of consecutive pushes (push_back or push_front) made from an empty
\* buffer, the first N return true, is_full() holds after the N-th and not
\* before, and the (N+1)-th returns false with len() still N.
C7_FillExactlyN ==
    /\ streak \in 1..rb.N => (last.ok = TRUE /\ (is_full(rb) <=> streak = rb.N))
    /\ streak = rb.N + 1 => (last.ok = FALSE /\ len(rb) = rb.N)

C7_Witness ==
    /\ streak = rb.N + 1
    /\ rb.N >= 2
    /\ last.op = "push_front"
    /\ rb.tail # rb.N - 1

\* C8: from a full buffer, in repeated pairs pop_front(); push_back(x) every
\* pop returns the oldest value not yet returned (so a pushed value comes
\* back N pairs later), every push succeeds and the buffer is full after
\* each pair.
C8_Wraparound ==
    /\ wrap.mode = "popped" => last.opt = wrap.expect
    /\ (wrap.mode = "full" /\ wrap.pairs > 0) => (last.ok = TRUE /\ is_full(rb))

\* more than 2N pairs: head and tail have both wrapped twice
C8_Witness ==
    /\ wrap.mode = "full"
    /\ wrap.pairs > 2 * rb.N
    /\ rb.N >= 2

\* C9: push_back_multiple(items) on a buffer holding c elements returns
\* min(len(items), N - c) and leaves the old contents followed by that many
\* leading items.
C9_PushBackMultiple ==
    [][last'.op = "push_back_multiple"
        => LET items == last'.items
               k == Min(Len(items), rb.N - rb.count)
           IN  /\ last'.n = k
               /\ Contents(rb') = Contents(rb) \o SubSeq(items, 1, k)]_vars

\* a slice was inserted in part: the buffer had room for some items only
C9_Witness ==
    /\ last.op = "push_back_multiple"
    /\ last.n >= 1
    /\ last.n < Len(last.items)
    /\ rb.count > last.n

\* C10: push_front_multiple(items) on a buffer with at least len(items)
\* free slots returns len(items) and leaves items, in their order, in front
\* of the old contents.
C10_PushFrontMultiple ==
    [][(last'.op = "push_front_multiple" /\ Len(last'.items) <= rb.N - rb.count)
        => /\ last'.n = Len(last'.items)
           /\ Contents(rb') = last'.items \o Contents(rb)]_vars

\* two different items went in front of earlier contents
C10_Witness ==
    /\ last.op = "push_front_multiple"
    /\ Len(last.items) = 2
    /\ last.n = 2
    /\ rb.count > 2
    /\ Contents(rb)[1] # Contents(rb)[2]

\* C14: after front() on a non-empty buffer, the value it returned is the one
\* a pop_front() made now returns; likewise back() and pop_back().
C14_PeekMatchesPop ==
    /\ (last.op = "front" /\ ~is_empty(rb)) => last.opt = pop_front(rb).ret
    /\ (last.op = "back" /\ ~is_empty(rb)) => last.opt = pop_back(rb).ret

\* back() was called with head = 0, so it read slot N-1
C14_Witness ==
    /\ last.op = "back"
    /\ last.opt # NoneOpt
    /\ rb.head = 0
    /\ rb.N >= 2

\* C16: head and tail are always indices of the storage, 0 <= head, tail < N.
C16_PointersInRange ==
    /\ rb.head \in 0..(rb.N - 1)
    /\ rb.tail \in 0..(rb.N - 1)

\* head has just wrapped forward to 0 while tail sits on the last slot
C16_Witness ==
    /\ last.op = "push_back"
    /\ last.ok = TRUE
    /\ rb.head = 0
    /\ rb.tail = rb.N - 1
    /\ rb.N >= 2

\* C17: is_empty() holds exactly when the logical contents are empty,
\* is_full() exactly when they are N values, and never both.
C17_CountDecides ==
    /\ is_empty(rb) <=> (dq = <<>>)
    /\ is_full(rb) <=> (Len(dq) = rb.N)
    /\ ~(is_empty(rb) /\ is_full(rb))

\* a full buffer whose head and tail coincide away from slot 0
C17_Witness ==
    /\ is_full(rb)
    /\ ~is_empty(rb)
    /\ rb.head = rb.tail
    /\ rb.head # 0
    /\ rb.N >= 2

\* the other ambiguous case: an empty buffer with head = tail away from slot 0
C17_EmptyReachable ==
    /\ is_empty(rb)
    /\ ~is_full(rb)
    /\ rb.head = rb.tail
    /\ rb.head # 0

\* C20: a successful single-element call moves one pointer by one step with
\* wraparound, leaves the other, changes count by one and touches no other
\* live element.
C20_SingleStep ==
    [][LET N == rb.N
           down(p) == IF p = 0 THEN N - 1 ELSE p - 1
       IN  /\ (last'.op = "push_back" /\ last'.ok)
                => /\ rb'.buffer = [rb.buffer EXCEPT ![rb.head] = last'.items[1]]
                   /\ rb'.head = (rb.head + 1) % N
                   /\ rb'.tail = rb.tail
                   /\ rb'.count = rb.count + 1
                   /\ Contents(rb') = Append(Contents(rb), last'.items[1])
           /\ (last'.op = "push_front" /\ last'.ok)
                => /\ rb'.tail = down(rb.tail)
                   /\ rb'.buffer = [rb.buffer EXCEPT ![down(rb.tail)] = last'.items[1]]
                   /\ rb'.head = rb.head
                   /\ rb'.count = rb.count + 1
                   /\ Contents(rb') = <<last'.items[1]>> \o Contents(rb)
           /\ (last'.op = "pop_back" /\ last'.opt # NoneOpt)
                => /\ rb'.head = down(rb.head)
                   /\ last'.opt = Some(rb.buffer[down(rb.head)])
                   /\ rb'.tail = rb.tail
                   /\ rb'.count = rb.count - 1
                   /\ Contents(rb) = Contents(rb') \o last'.opt
           /\ (last'.op = "pop_front" /\ last'.opt # NoneOpt)
                => /\ rb'.tail = (rb.tail + 1) % N
                   /\ last'.opt = Some(rb.buffer[rb.tail])
                   /\ rb'.head = rb.head
                   /\ rb'.count = rb.count - 1
                   /\ Contents(rb) = last'.opt \o Contents(rb')]_vars

\* a push_front wrapped tail from 0 to N-1 in front of earlier contents
C20_Witness ==
    /\ last.op = "push_front"
    /\ last.ok = TRUE
    /\ rb.tail = rb.N - 1
    /\ rb.count >= 2
    /\ rb.N >= 3

\* C15: no constructed buffer has capacity 0, and none is at once
\* is_empty() and is_full().
C15_ZeroCapacityRejected ==
    /\ rb.N >= 1
    /\ ~(is_empty(rb) /\ is_full(rb))

\* what the code gives instead: a buffer of capacity 0 on which a push was
\* rejected and which still reports empty and full together
C15_AlwaysFullAlwaysEmpty ==
    /\ rb.N = 0
    /\ last.op = "push_back"
    /\ last.ok = FALSE
    /\ is_empty(rb)
    /\ is_full(rb)

\* C11: clear() leaves head = tail = 0 and count = 0, so is_empty() holds,
\* len() is 0 and capacity() is what it was; and from then on every call
\* returns what it returns on a buffer constructed afresh, whose len(),
\* is_empty() and is_full() it also shares.
C11_ClearIsFresh ==
    /\ last.op = "clear"
        => /\ rb.head = 0 /\ rb.tail = 0 /\ rb.count = 0
           /\ is_empty(rb)
           /\ len(rb) = 0
           /\ capacity(rb) = capacity(twin)
    /\ last = twinLast
    /\ len(rb) = len(twin)
    /\ is_empty(rb) = is_empty(twin)
    /\ is_full(rb) = is_full(twin)

\* after a clear, a slot that is stale in both buffers holds an old value in
\* rb and another value in the fresh buffer, and a pop has just returned a
\* value on a buffer refilled past that slot's neighbours
C11_Witness ==
    /\ last.op = "pop_back"
    /\ last.opt # NoneOpt
    /\ rb.count >= 1
    /\ \E i \in DOMAIN rb.buffer :
          /\ rb.buffer[i] # twin.buffer[i]
          /\ rb.buffer[i] # FillValue

\* what k successive pop_front() calls return, in order
RECURSIVE PopFrontSeq(_, _)
PopFrontSeq(self, k) ==
    IF k = 0 THEN <<>>
    ELSE LET r == pop_front(self) IN <<r.ret>> \o PopFrontSeq(r.self, k - 1)

\* C12: an iterator taken when count = c yields the c values of the logical
\* contents front to back, which are what c successive pop_front() calls
\* return, and None from then on; size_hint() gives the number of values
\* still to come as lower and as upper bound.
C12_IterYieldsContents ==
    it.live =>
        LET c == rb.count
            pops == PopFrontSeq(rb, c)
            togo == IF Len(yielded) < c THEN c - Len(yielded) ELSE 0
        IN  /\ pops = [i \in 1..c |-> Some(Contents(rb)[i])]
            /\ yielded = [i \in 1..Len(yielded) |->
                             IF i <= c THEN pops[i] ELSE NoneOpt]
            /\ last.op = "size_hint" => (last.n = togo /\ last.opt = Some(togo))

\* an iterator over a window that wraps past the end of the storage was run
\* to exhaustion and then asked twice more
C12_Witness ==
    /\ it.live
    /\ rb.count >= 2
    /\ rb.tail + rb.count > rb.N
    /\ Len(yielded) = rb.count + 2
    /\ yielded[1] # yielded[2]

\* size_hint() was asked in the middle of an iteration
C12_HintInMidIteration ==
    /\ last.op = "size_hint"
    /\ Len(yielded) >= 1
    /\ last.n >= 1

\* C13: len(), is_empty(), is_full(), capacity(), front(), back(), iter()
\* and next() leave head, tail, count and the storage as they are; and an
\* iterator yields what an earlier one yielded when no mutation came between.
ReadOnlyOps ==
    {"len", "is_empty", "is_full", "capacity", "front", "back", "iter", "next"}

C13_ReadsLeaveBuffer ==
    /\ [][last'.op \in ReadOnlyOps => rb' = rb]_vars
    /\ []((it.live /\ prev.known)
            => \A i \in 1..Min(Len(yielded), Len(prev.seq)) : yielded[i] = prev.seq[i])

\* a second iterator has yielded everything, after queries were made
C13_Witness ==
    /\ prev.known
    /\ it.live
    /\ it.remaining = 0
    /\ rb.count >= 2
    /\ Len(yielded) = rb.count
    /\ yielded[1] # yielded[2]
    /\ last.op = "next"

\* C18: new(fill) gives head = tail = 0 and count = 0, so is_empty() holds,
\* len() is 0 and capacity() is N; and no pop, peek or next() returns the
\* fill value, which is never pushed.
C18_NewIsEmpty ==
    /\ last.op = "new"
        => /\ rb.head = 0 /\ rb.tail = 0 /\ rb.count = 0
           /\ is_empty(rb)
           /\ len(rb) = 0
           /\ capacity(rb) = Cardinality(DOMAIN rb.buffer)
    /\ last.op \in {"pop_front", "pop_back", "front", "back", "next"}
        => last.opt # Some(FillValue)
    /\ \A i \in 1..Len(yielded) : yielded[i] # Some(FillValue)

\* next() returned a value while a slot never written still holds the fill
C18_Witness ==
    /\ last.op = "next"
    /\ last.opt # NoneOpt
    /\ \E i \in DOMAIN rb.buffer : rb.buffer[i] = FillValue

\* C19: a non-interactive play always returns: each play_round call raises
\* round by exactly 1, play_round is not called once round has reached
\* max_rounds (20 in test mode, 10000 otherwise), so round never passes it,
\* and play is over right after a play_round call that reports a winner or
\* that brings round to max_rounds.
C19_PlayTerminates ==
    /\ [](game.round <= max_rounds(game))
    /\ [](pc = "round" => game.round < max_rounds(game))
    /\ [][PlayRound => game'.round = game.round + 1]_vars
    /\ [][(pc = "returned" /\ (ret.winner # NoneOpt
                                \/ game.round >= max_rounds(game)))
              => pc' = "over"]_vars
    /\ [][pc = "over" => pc' = "over"]_vars
    /\ <>(pc = "over")

\* play stopped by the round limit of a game played without test mode.
C19_Witness ==
    /\ pc = "over"
    /\ ret.winner = NoneOpt
    /\ ~game.test_mode
    /\ game.round = NormalRounds

\* play stopped by the round limit of test mode.
C19_TestModeStops ==
    /\ pc = "over"
    /\ ret.winner = NoneOpt
    /\ game.test_mode
    /\ game.round = TestModeRounds

\* play stopped before the limit by a winner.
C19_WinnerStops ==
    /\ pc = "over"
    /\ ret.winner # NoneOpt
    /\ game.round < max_rounds(game)

\* C21: in every state of a buffer with N >= 1, head = (tail + count) mod N;
\* hence head = tail exactly when count is 0 or N.
C21_HeadIsTailPlusCount ==
    /\ rb.head = (rb.tail + rb.count) % rb.N
    /\ (rb.head = rb.tail) <=> (rb.count = 0 \/ rb.count = rb.N)

\* a partly filled window that wraps: head is below tail
C21_Witness ==
    /\ rb.count \in 1..(rb.N - 1)
    /\ rb.head < rb.tail
    /\ rb.tail + rb.count > rb.N

\* C22: no operation on a buffer with N >= 1 takes an unsigned value below 0
\* or uses an index outside 0..N-1: head, tail and the iterator's position
\* are indices of the storage, count stays within 0..N and the iterator's
\* remaining within 0..count; a pointer steps back by 1 only from a value
\* above 0, count goes down only from above 0 and up only from below N, and
\* remaining goes down only from above 0.
C22_NoUnderflow ==
    /\ [](/\ DOMAIN rb.buffer = 0..(rb.N - 1)
          /\ rb.head \in 0..(rb.N - 1)
          /\ rb.tail \in 0..(rb.N - 1)
          /\ rb.count \in 0..rb.N)
    /\ [](it.live => /\ it.remaining \in 0..rb.count
                     /\ it.current \in 0..(rb.N - 1))
    /\ [][rb'.tail = rb.tail - 1 => rb.tail > 0]_vars
    /\ [][rb'.head = rb.head - 1 => rb.head > 0]_vars
    /\ [][rb'.count = rb.count - 1 => rb.count > 0]_vars
    /\ [][rb'.count = rb.count + 1 => rb.count < rb.N]_vars
    /\ [][(it.live /\ it'.live /\ it'.remaining = it.remaining - 1)
            => it.remaining > 0]_vars

\* next() was called on an iterator with nothing remaining, on a buffer whose
\* tail sits on slot 0 and whose head has wrapped to slot 0
C22_Witness ==
    /\ last.op = "next"
    /\ last.opt = NoneOpt
    /\ it.remaining = 0
    /\ rb.count = rb.N
    /\ rb.tail = 0
    /\ rb.N >= 2

Reverse(s) == [i \in 1..Len(s) |-> s[Len(s) + 1 - i]]

\* C24: take_battle_cards(pot) on a hand with at least pot.len() free slots
\* leaves the pot as it is and puts the pot's cards, last card first, in
\* front of the hand's previous cards; the hand grows by exactly pot.len().
C24_TakeReversesPot ==
    [][(last'.op = "take_battle_cards"
            /\ len(handPot) <= hand.cards.N - hand_len(hand))
        => /\ handPot' = handPot
           /\ Contents(hand'.cards) = Reverse(Contents(handPot)) \o Contents(hand.cards)
           /\ hand_len(hand') = hand_len(hand) + len(handPot)]_vars

\* a hand took a pot of two different cards, stored across the end of the
\* pot's storage, in front of a card it held
C24_Witness ==
    /\ last.op = "take_battle_cards"
    /\ len(handPot) = 2
    /\ handPot.tail + handPot.count > handPot.N
    /\ Contents(handPot)[1] # Contents(handPot)[2]
    /\ hand_len(hand) = 3
    /\ Contents(hand.cards)[1] = Contents(handPot)[2]
    /\ Contents(hand.cards)[2] = Contents(handPot)[1]

\* C25: every round that plays cards returns with the pot discarded by
\* clear() and with every card that went into the pot received by a hand, so
\* the two hands together hold as many cards as before the round.
C25_PotReadAndDiscarded ==
    [][(PlayRound /\ ~hand_is_empty(game.player1_cards)
                  /\ ~hand_is_empty(game.player2_cards))
        => /\ is_empty(game'.battle_buffer)
           /\ hand_len(game'.player1_cards) + hand_len(game'.player2_cards)
                = hand_len(game.player1_cards) + hand_len(game.player2_cards)
                  + len(game.battle_buffer)]_vars

\* C26: after Deck::split and whenever play_round has returned Ok(None), the
\* battle buffer is empty and the two hands together hold exactly 52 cards;
\* so whenever play_round is about to be called the pot its clear() acts on
\* is already empty and the two hands are not both empty.
C26_BetweenRounds ==
    ((pc = "round") \/ (pc = "returned" /\ ret = Ok(NoneOpt)))
        => /\ is_empty(game.battle_buffer)
           /\ hand_len(game.player1_cards) + hand_len(game.player2_cards) = DeckSize
           /\ ~(hand_is_empty(game.player1_cards) /\ hand_is_empty(game.player2_cards))

\* play_round returned Ok(None) from a round that took a player's last card
C26_Witness ==
    /\ pc = "returned"
    /\ ret = Ok(NoneOpt)
    /\ game.round > 1
    /\ hand_is_empty(game.player1_cards) \/ hand_is_empty(game.player2_cards)

\* The cards held by the two hands and the battle buffer.
Held(self) ==
    Contents(self.player1_cards.cards) \o Contents(self.player2_cards.cards)
        \o Contents(self.battle_buffer)

\* C27: at every return from play_round, returns that declare a winner
\* included, each of the 52 deck cards is held exactly once by player 1's
\* hand, player 2's hand or the battle buffer.
C27_NoCardLost ==
    pc = "returned"
        => LET held == Held(game)
           IN  /\ Len(held) = DeckSize
               /\ {held[k] : k \in 1..Len(held)} = {DeckNew[i] : i \in DOMAIN DeckNew}

\* The cards in the two hands.
InHands(self) == hand_len(self.player1_cards) + hand_len(self.player2_cards)

\* C28: no push whose result the game discards is rejected.  Each add_card
\* of Deck::split succeeds, so each hand is dealt half the deck; the hands
\* and the pot never hold more than 52 cards together, so the absorbing hand
\* has room for the pot; each card drawn in a round is in the pot or in a
\* hand when the round returns, except the deciding card play_round never
\* pushes when player 2 has none to match it.
C28_DiscardedPushesSucceed ==
    /\ []((pc = "round" /\ game.round = 0)
            => /\ 2 * hand_len(game.player1_cards) = DeckSize
               /\ 2 * hand_len(game.player2_cards) = DeckSize)
    /\ [](InHands(game) + len(game.battle_buffer) <= HandCapacity)
    /\ [](~is_full(game.battle_buffer))
    /\ [][(PlayRound /\ ret' = Ok(NoneOpt))
            => /\ is_empty(game'.battle_buffer)
               /\ InHands(game') = InHands(game) + len(game.battle_buffer)]_vars
    /\ [][(PlayRound /\ ret'.winner # NoneOpt)
            => \/ InHands(game') + len(game'.battle_buffer) = InHands(game)
               \/ /\ ret'.winner = Some(1)
                  /\ len(game'.battle_buffer) = 2 + 2 * BurnCards
                  /\ InHands(game') + len(game'.battle_buffer) + 1 = InHands(game)]_vars

\* a hand absorbed a pot that filled it to its capacity
C28_Witness ==
    /\ pc = "returned"
    /\ ret.winner = NoneOpt
    /\ is_full(game.player1_cards.cards) \/ is_full(game.player2_cards.cards)

\* The k-th card a hand gives when drawn from, and what it keeps after k draws.
Drawn(self, k) == Contents(self.cards)[hand_len(self) - k + 1]
Kept(self, k) == SubSeq(Contents(self.cards), 1, hand_len(self) - k)

\* The pot after each player has put in k cards, player 1 first each time.
PotOf(self, k) ==
    [i \in 1..(2 * k) |-> IF i % 2 = 1 THEN Drawn(self.player1_cards, (i + 1) \div 2)
                          ELSE Drawn(self.player2_cards, i \div 2)]

\* The winner holds the 2k pot cards in front of the cards it kept, the loser
\* holds the cards it kept: the winner's hand is k longer than before the
\* round and the loser's k shorter.
Receives(winner, k) ==
    /\ Contents(game'.player1_cards.cards)
         = (IF winner = 1 THEN Reverse(PotOf(game, k)) ELSE <<>>)
             \o Kept(game.player1_cards, k)
    /\ Contents(game'.player2_cards.cards)
         = (IF winner = 2 THEN Reverse(PotOf(game, k)) ELSE <<>>)
             \o Kept(game.player2_cards, k)
    /\ hand_len(IF winner = 1 THEN game'.player1_cards ELSE game'.player2_cards)
         = hand_len(IF winner = 1 THEN game.player1_cards ELSE game.player2_cards) + k
    /\ hand_len(IF winner = 1 THEN game'.player2_cards ELSE game'.player1_cards)
         = hand_len(IF winner = 1 THEN game.player2_cards ELSE game.player1_cards) - k

\* The cards of a war: the first card, BurnCards burnt cards, the deciding card.
WarCards == BurnCards + 2

\* The outcome of a round in which both players hold cards, a war being fought
\* to its end when `fought` holds.
RoundOutcome(fought) ==
    LET card1 == Drawn(game.player1_cards, 1)
        card2 == Drawn(game.player2_cards, 1)
    IN  /\ value(card1) > value(card2) => Receives(1, 1)
        /\ value(card2) > value(card1) => Receives(2, 1)
        /\ (value(card1) = value(card2) /\ fought)
            => /\ hand_len(game.player1_cards) >= WarCards
               /\ hand_len(game.player2_cards) >= WarCards
               /\ IF value(Drawn(game.player2_cards, WarCards))
                        > value(Drawn(game.player1_cards, WarCards))
                  THEN Receives(2, WarCards)
                  ELSE Receives(1, WarCards)

\* C29 as stated: in every round both players draw from the back of their
\* hands; the higher first card takes both cards, and on a tie each player
\* burns 3 cards and draws a deciding card, the higher deciding card taking
\* all 10 cards of the pot, player 1 taking them when the deciding cards tie.
C29_RoundOutcome ==
    [][(PlayRound /\ ~hand_is_empty(game.player1_cards)
                  /\ ~hand_is_empty(game.player2_cards))
        => RoundOutcome(TRUE)]_vars

\* C29, amended: the same, the war being fought to its end when both players
\* held at least 5 cards at the start of the round.
C29_RoundOutcomeFought ==
    [][(PlayRound /\ ~hand_is_empty(game.player1_cards)
                  /\ ~hand_is_empty(game.player2_cards))
        => RoundOutcome(/\ hand_len(game.player1_cards) >= WarCards
                        /\ hand_len(game.player2_cards) >= WarCards)]_vars

\* a war whose deciding cards tied has just been resolved: the slots of the
\* cleared pot still show the 10 cards, and player 1 holds them in front
C29_Witness ==
    /\ pc = "returned"
    /\ ret = Ok(NoneOpt)
    /\ value(game.battle_buffer.buffer[0]) = value(game.battle_buffer.buffer[1])
    /\ value(game.battle_buffer.buffer[2 * WarCards - 2])
         = value(game.battle_buffer.buffer[2 * WarCards - 1])
    /\ hand_len(game.player1_cards) >= 2 * WarCards
    /\ \A i \in 0..(2 * WarCards - 1) :
          Contents(game.player1_cards.cards)[2 * WarCards - i]
            = game.battle_buffer.buffer[i]

\* C30: a non-interactive play never returns an error: no play_round call
\* returns Err, be it PlayerOutOfCards, InvalidPlayerNumber or
\* BattleBufferFull, so play returns Ok(()).
C30_NoError ==
    /\ ret.ok
    /\ ret.err = ""

\* play has returned after a play_round call that found player 1's hand empty
C30_Witness ==
    /\ pc = "over"
    /\ ret = Ok(Some(2))
    /\ hand_is_empty(game.player1_cards)
    /\ is_empty(game.battle_buffer)

\* C31: whenever play_round has returned Ok(Some(w)), the hand of the player
\* other than w is empty and the hand of player w is not.
C31_WinnerHoldsCards ==
    (pc = "returned" /\ ret.ok /\ ret.winner # NoneOpt)
        => LET w == ret.winner[1]
               winner == IF w = 1 THEN game.player1_cards ELSE game.player2_cards
               loser == IF w = 1 THEN game.player2_cards ELSE game.player1_cards
           IN  /\ w \in {1, 2}
               /\ hand_is_empty(loser)
               /\ ~hand_is_empty(winner)

\* play_round declared a winner from inside a war: the pot still holds the
\* cards of the round
C31_Witness ==
    /\ pc = "returned"
    /\ ret.winner # NoneOpt
    /\ ~is_empty(game.battle_buffer)
    /\ hand_is_empty(game.player1_cards) \/ hand_is_empty(game.player2_cards)

\* The cards of `cards` (a deck, indexed from 0) at the indices of the given
\* parity, in deck order.
DeckAt(cards, parity) ==
    [k \in 1..(DeckSize \div 2) |-> cards[2 * (k - 1) + parity]]

CardsOf(s) == {s[k] : k \in DOMAIN s}

\* C32: Deck::split deals alternately: player 1 holds the cards at the even
\* deck indices and player 2 those at the odd ones, each in deck order front
\* to back; each hand holds 26 cards, every deck card is in exactly one hand,
\* and the first card a player draws is the last one dealt to them (deck
\* index 50 for player 1, 51 for player 2).
C32_SplitAlternates ==
    (pc = "round" /\ game.round = 0)
        => \E seed \in Seeds :
               LET cards == shuffle_with_seed(DeckNew, seed)
                   hands == split(cards)
                   first == Contents(hands[1].cards)
                   second == Contents(hands[2].cards)
               IN  /\ game.player1_cards = hands[1]
                   /\ game.player2_cards = hands[2]
                   /\ first = DeckAt(cards, 0)
                   /\ second = DeckAt(cards, 1)
                   /\ hand_len(hands[1]) = 26
                   /\ hand_len(hands[2]) = 26
                   /\ CardsOf(first) \cup CardsOf(second) = CardsOf(cards)
                   /\ CardsOf(first) \cap CardsOf(second) = {}
                   /\ Cardinality(CardsOf(first)) + Cardinality(CardsOf(second))
                          = DeckSize
                   /\ hand_draw_card(hands[1]).ret = Some(cards[50])
                   /\ hand_draw_card(hands[2]).ret = Some(cards[51])

\* the hands as dealt from a shuffled deck: 26 cards each, and the deck was
\* not in the order of Deck::new
C32_Witness ==
    /\ pc = "round"
    /\ game.round = 0
    /\ hand_len(game.player1_cards) = 26
    /\ hand_len(game.player2_cards) = 26
    /\ Contents(game.player1_cards.cards) # DeckAt(DeckNew, 0)

====
